---- MODULE Spec2Model ----
(***************************************************************************)
(* Storage engines of AirBnB_clone_v2: FileStorage (models/engine/         *)
(* file_storage.py), DBStorage (models/engine/db_storage.py) and the       *)
(* storage facade that exposes exactly one of them to the application,     *)
(* and the Flask application of web_flask/7-states_list.py that uses it.   *)
(*                                                                         *)
(* Python values are modelled as records with uniform fields so that they  *)
(* can be compared: None is NoneObj / NoFilter / RetNone, a class handle   *)
(* is [kind |-> "class"], a string is [kind |-> "str"].                    *)
(***************************************************************************)
EXTENDS Naturals, Sequences, FiniteSets, TLC

VARIABLES
    storage,      \* the facade's backend: "file", "db", or "pair" (both, in lock-step)
    fs_objects,   \* FileStorage.__objects: insertion-ordered dict, a sequence of [key, obj]
    fs_file,      \* the JSON file at FileStorage.__file_path
    db_tables,    \* whether the mapped tables exist in the database
    db_rows,      \* the committed rows of the database
    db_session,   \* DBStorage.__session: None, or the scoped_session registry
    ret,          \* what the last storage call returned or raised
    mon,          \* observer of the call sequences new/delete -> save -> reload
    web,          \* the Flask application: the request under way and its response
    held          \* the mapping a caller keeps from an earlier all() call

fsvars == <<fs_objects, fs_file>>
dbvars == <<db_tables, db_rows, db_session>>
vars == <<storage, fs_objects, fs_file, db_tables, db_rows, db_session, ret, mon, web, held>>

----------------------------------------------------------------------------
(* Records (models.State, models.City, ...) and the values passed around   *)

\* The record types sampled from the `classes` dictionaries.  BaseModel is
\* a key of file_storage.classes only.
FsClasses == {"BaseModel", "State", "City"}
DbClasses == {"State", "City"}

\* The records the application creates: class, id and one further
\* attribute.  State.1 exists in two versions (renamed "a" -> "b"); State.1
\* and City.1 share an id on purpose.
Records ==
    { [cls |-> "State", id |-> "1", name |-> "a"],
      [cls |-> "State", id |-> "1", name |-> "b"],
      [cls |-> "State", id |-> "2", name |-> "a"],
      [cls |-> "City", id |-> "1", name |-> "a"] }

\* Python's None where a record is expected.
NoneObj == [cls |-> "NoneType", id |-> "", name |-> ""]

\* ids asked for by get(); "9" is an id no record has.
QueryIds == {"1", "2", "9"}

\* The cls argument of all/get/count: None, a class object, or a string.
\* A string carries whether it is the very object used as key of `classes`
\* (an interned literal) or an equal string built at run time; `is`
\* distinguishes them, == does not.
NoFilter == [kind |-> "none", name |-> "", interned |-> FALSE]
Handle(c) == [kind |-> "class", name |-> c, interned |-> FALSE]
StrName(s, i) == [kind |-> "str", name |-> s, interned |-> i]
Handles == {Handle(c) : c \in {"BaseModel", "State", "City", "int"}}
StrNames == {StrName("State", TRUE), StrName("State", FALSE), StrName("Bogus", FALSE)}
Filters == {NoFilter} \cup Handles \cup StrNames

\* obj.__class__.__name__ + "." + obj.id
KeyOf(obj) == obj.cls \o "." \o obj.id

\* Return values and exceptions of a call.
RetNone == [kind |-> "None", val |-> 0]
RetObj(o) == IF o = NoneObj THEN RetNone ELSE [kind |-> "obj", val |-> o]
RetDict(d) == [kind |-> "dict", val |-> d]
RetInt(n) == [kind |-> "int", val |-> n]
Raised(e) == [kind |-> "raise", val |-> e]

----------------------------------------------------------------------------
(* Python dict with insertion order: a sequence of [key, obj] entries      *)

DictKeys(d) == {d[i].key : i \in 1..Len(d)}
DictValues(d) == {d[i].obj : i \in 1..Len(d)}
DictHas(d, k) == \E i \in 1..Len(d) : d[i].key = k
DictGet(d, k) == d[CHOOSE i \in 1..Len(d) : d[i].key = k].obj

\* d[k] = v: an existing key keeps its position, a new key goes last.
DictSet(d, k, v) ==
    IF DictHas(d, k)
    THEN [i \in 1..Len(d) |-> IF d[i].key = k THEN [key |-> k, obj |-> v] ELSE d[i]]
    ELSE Append(d, [key |-> k, obj |-> v])

\* del d[k]
DictDel(d, k) == SelectSeq(d, LAMBDA e : e.key # k)

----------------------------------------------------------------------------
(* BaseModel.to_dict, the BaseModel constructor and the JSON document      *)

\* to_dict(save_fs=1): the attributes plus the type tag "__class__".
to_dict(obj) == [__class__ |-> obj.cls, id |-> obj.id, name |-> obj.name]

\* classes[d["__class__"]] called with d as keywords: an instance of the tagged class with the
\* stored attributes; the tag itself is not an attribute.
from_dict(d) == [cls |-> d["__class__"], id |-> d["id"], name |-> d["name"]]

\* The file: absent, not a JSON object, or a JSON object of key -> dict.
AbsentFile == [exists |-> FALSE, valid |-> FALSE, doc |-> <<>>]
InvalidFile == [exists |-> TRUE, valid |-> FALSE, doc |-> <<>>]
JsonFile(doc) == [exists |-> TRUE, valid |-> TRUE, doc |-> doc]

DocKeys(doc) == {doc[i].key : i \in 1..Len(doc)}
DocGet(doc, k) == doc[CHOOSE i \in 1..Len(doc) : doc[i].key = k].val

----------------------------------------------------------------------------
(* FileStorage                                                             *)

\* A match by isinstance: every record is an instance of BaseModel.
FS_matches_Isinstance(cls, value) ==
    \/ cls.kind = "class" /\ (cls.name = value.cls \/ cls.name = "BaseModel")
    \/ cls.kind = "str" /\ cls.name = value.cls

\* cls == value.__class__ or cls == value.__class__.__name__
FS_matches(cls, value) ==
    \/ cls.kind = "class" /\ cls.name = value.cls
    \/ cls.kind = "str" /\ cls.name = value.cls

FS_all(objects, cls) ==
    IF cls # NoFilter
    THEN SelectSeq(objects, LAMBDA e : FS_matches(cls, e.obj))
    ELSE objects

\* A new() that keys the entry by the id alone.
FS_new_IdKey(objects, obj) ==
    IF obj # NoneObj
    THEN DictSet(objects, obj.id, obj)
    ELSE objects

FS_new(objects, obj) ==
    IF obj # NoneObj
    THEN DictSet(objects, KeyOf(obj), obj)
    ELSE objects

\* save() raises KeyError at json_objects[key].decode() when a key is
\* "password", before the file is opened.
FS_save_raises(objects) == DictHas(objects, "password")

\* A save that adds to the document instead of replacing it.
FS_save_Merge(objects, file) ==
    IF FS_save_raises(objects)
    THEN file
    ELSE JsonFile([i \in 1..Len(objects) |->
                     [key |-> objects[i].key, val |-> to_dict(objects[i].obj)]]
                  \o SelectSeq(file.doc, LAMBDA e : ~DictHas(objects, e.key)))

FS_save(objects, file) ==
    IF FS_save_raises(objects)
    THEN file
    ELSE JsonFile([i \in 1..Len(objects) |->
                     [key |-> objects[i].key, val |-> to_dict(objects[i].obj)]])

\* The loop of reload(): entries are stored one by one, and the first entry
\* whose tag is no key of `classes` raises KeyError, which ends the loop.
RECURSIVE FS_reload_loop(_, _, _)
FS_reload_loop(objects, jo, i) ==
    IF i > Len(jo)
    THEN objects
    ELSE IF jo[i].val["__class__"] \notin FsClasses
         THEN objects
         ELSE FS_reload_loop(DictSet(objects, jo[i].key, from_dict(jo[i].val)), jo, i + 1)

\* A reload that rebuilds the mapping from the file alone.
FS_reload_Replace(objects, file) ==
    IF ~file.exists \/ ~file.valid
    THEN objects
    ELSE FS_reload_loop(<<>>, file.doc, 1)

\* A reload that takes a missing file for an empty store.
FS_reload_AbsentClears(objects, file) ==
    IF ~file.exists
    THEN <<>>
    ELSE IF ~file.valid THEN objects ELSE FS_reload_loop(objects, file.doc, 1)

\* open() raises on an absent file and json.load on an invalid one; the bare
\* except swallows both.
FS_reload(objects, file) ==
    IF ~file.exists \/ ~file.valid
    THEN objects
    ELSE FS_reload_loop(objects, file.doc, 1)

\* Nothing escapes the bare except of reload().
FS_reload_raises(objects, file) == FALSE

\* A delete() that drops every record of the record's class.
FS_delete_WholeClass(objects, obj) ==
    IF obj # NoneObj /\ DictHas(objects, KeyOf(obj))
    THEN SelectSeq(objects, LAMBDA e : e.obj.cls # obj.cls)
    ELSE objects

FS_delete(objects, obj) ==
    IF obj # NoneObj /\ DictHas(objects, KeyOf(obj))
    THEN DictDel(objects, KeyOf(obj))
    ELSE objects

\* A close() that does not read the file.
FS_close_Noop(objects, file) == objects

\* close() is reload().
FS_close(objects, file) == FS_reload(objects, file)

\* A scan that returns the first value of all(cls) without comparing ids.
FS_get_AnyId(objects, cls, id) ==
    IF ~(cls.kind = "class" /\ cls.name \in FsClasses)
    THEN NoneObj
    ELSE LET all_cls == FS_all(objects, cls)
         IN  IF all_cls = <<>> THEN NoneObj ELSE all_cls[1].obj

\* A scan that falls back to the last value seen when no id matches.
FS_get_Fallback(objects, cls, id) ==
    IF ~(cls.kind = "class" /\ cls.name \in FsClasses)
    THEN NoneObj
    ELSE LET all_cls == FS_all(objects, cls)
             hits == {i \in 1..Len(all_cls) : all_cls[i].obj.id = id}
         IN  IF all_cls = <<>>
             THEN NoneObj
             ELSE IF hits = {}
                  THEN all_cls[Len(all_cls)].obj
                  ELSE all_cls[CHOOSE i \in hits : \A j \in hits : i <= j].obj

\* cls not in classes.values(), then the first value of all(cls) with the id.
FS_get(objects, cls, id) ==
    IF ~(cls.kind = "class" /\ cls.name \in FsClasses)
    THEN NoneObj
    ELSE LET all_cls == FS_all(objects, cls)
             hits == {i \in 1..Len(all_cls) : all_cls[i].obj.id = id}
         IN  IF hits = {}
             THEN NoneObj
             ELSE all_cls[CHOOSE i \in hits : \A j \in hits : i <= j].obj

RECURSIVE FS_count_loop(_, _)
FS_count_loop(objects, todo) ==
    IF todo = {}
    THEN 0
    ELSE LET clas == CHOOSE c \in todo : TRUE
         IN  Len(FS_all(objects, Handle(clas))) + FS_count_loop(objects, todo \ {clas})

\* A count whose loop returns after the first class.
FS_count_FirstClass(objects, cls) ==
    IF cls = NoFilter
    THEN Len(FS_all(objects, Handle("State")))
    ELSE Len(FS_all(objects, cls))

\* `not cls` selects the sum over classes.values().
FS_count(objects, cls) ==
    IF cls = NoFilter
    THEN FS_count_loop(objects, FsClasses)
    ELSE Len(FS_all(objects, cls))

----------------------------------------------------------------------------
(* DBStorage and the SQLAlchemy session it drives                          *)

\* The threads that may call the storage; Spec runs the main thread only.
Threads == {"t1", "t2"}
MainThread == "t1"

\* A thread's session in the scoped_session registry.  pending: added and
\* not yet flushed; flushed: inserted in the open transaction; deleted:
\* persistent instances marked for deletion.
NoSess == [open |-> FALSE, pending |-> {}, flushed |-> {}, deleted |-> {}]
NewSess == [open |-> TRUE, pending |-> {}, flushed |-> {}, deleted |-> {}]

\* __session = None, as the class attribute leaves it until reload().
SessionNone == [set |-> FALSE, reg |-> [t \in Threads |-> NoSess]]
\* scoped_session(sess_factory): a registry holding no session yet.
ScopedSession == [set |-> TRUE, reg |-> [t \in Threads |-> NoSess]]

\* The registry hands the calling thread its session, made on first use.
DB_sess(session, t) ==
    IF session.reg[t].open THEN session.reg[t] ELSE NewSess

\* What the session's transaction sees: committed rows with its own inserts
\* and without its own deletes.
DB_view(rows, s) == ((rows \cup s.flushed) \ s.deleted) \cup s.pending

\* Query.all() flushes the pending instances first (autoflush).
DB_autoflush(s) == [s EXCEPT !.pending = {}, !.flushed = s.flushed \cup s.pending]

\* cls is None or cls is classes[clss] or cls is clss
DB_matches(cls, clss) ==
    \/ cls.kind = "none"
    \/ cls.kind = "class" /\ cls.name = clss
    \/ cls.kind = "str" /\ cls.name = clss /\ cls.interned

\* The classes of `classes` that all(cls) queries.
DB_queried(cls) == {clss \in DbClasses : DB_matches(cls, clss)}

\* new_dict of all(): key -> obj, in no particular order.
DB_all(rows, s, cls) ==
    {[key |-> KeyOf(obj), obj |-> obj] :
        obj \in {o \in DB_view(rows, s) : o.cls \in DB_queried(cls)}}

\* self.__session.query raises AttributeError on None, and the query fails
\* on a missing table; neither happens when no class is queried.
DB_all_raises(session, tables, cls) ==
    IF DB_queried(cls) = {} THEN "no"
    ELSE IF ~session.set THEN "AttributeError"
    ELSE IF ~tables THEN "ProgrammingError"
    ELSE "no"

\* session.add: None is no mapped instance; a persistent or pending
\* instance stays as it is; a transient instance becomes pending.
DB_new(rows, s, obj) ==
    IF obj = NoneObj \/ obj \in DB_view(rows, s)
    THEN s
    ELSE [s EXCEPT !.pending = s.pending \cup {obj}]

DB_new_raises(session, obj) ==
    IF ~session.set THEN "AttributeError"
    ELSE IF obj = NoneObj THEN "UnmappedInstanceError"
    ELSE "no"

\* session.delete marks a persistent instance; an instance without
\* identity key (pending or never added) raises InvalidRequestError.
DB_persistent(rows, s) == (rows \cup s.flushed)

DB_delete(rows, s, obj) ==
    IF obj # NoneObj /\ obj \in DB_persistent(rows, s)
    THEN [s EXCEPT !.deleted = s.deleted \cup {obj}]
    ELSE s

DB_delete_raises(session, rows, s, obj) ==
    IF obj = NoneObj THEN "no"
    ELSE IF ~session.set THEN "AttributeError"
    ELSE IF obj \notin DB_persistent(rows, s) THEN "InvalidRequestError"
    ELSE "no"

\* A commit that writes what was flushed and skips the flush of the
\* pending instances.
DB_save_NoFlush(rows, s) == (rows \cup s.flushed) \ s.deleted

\* session.commit: the rows after the transaction.
DB_save(rows, s) == DB_view(rows, s)

DB_save_raises(session) == IF ~session.set THEN "AttributeError" ELSE "no"

\* A remove() that drops the sessions of all threads.
DB_close_AllThreads(session, t) == [session EXCEPT !.reg = [u \in Threads |-> NoSess]]

\* A remove() that leaves the thread's session in the registry.
DB_close_Keep(session, t) == session

\* session.remove: the thread's session is closed (its transaction rolled
\* back) and dropped from the registry.
DB_close(session, t) == [session EXCEPT !.reg[t] = NoSess]

DB_close_raises(session) == IF ~session.set THEN "AttributeError" ELSE "no"

\* reload: create_all, and a new scoped_session in place of the old one.
DB_reload(session) == ScopedSession

\* cls not in classes.values(), then the value of all(cls) with the id.
DB_get(rows, s, cls, id) ==
    IF ~(cls.kind = "class" /\ cls.name \in DbClasses)
    THEN NoneObj
    ELSE LET hits == {e \in DB_all(rows, s, cls) : e.obj.id = id}
         IN  IF hits = {} THEN NoneObj ELSE (CHOOSE e \in hits : TRUE).obj

DB_get_raises(session, tables, cls) ==
    IF ~(cls.kind = "class" /\ cls.name \in DbClasses)
    THEN "no"
    ELSE DB_all_raises(session, tables, cls)

RECURSIVE DB_count_loop(_, _, _)
DB_count_loop(rows, s, todo) ==
    IF todo = {}
    THEN 0
    ELSE LET clas == CHOOSE c \in todo : TRUE
         IN  Cardinality(DB_all(rows, s, Handle(clas)))
               + DB_count_loop(rows, s, todo \ {clas})

\* `not cls` selects the sum over classes.values().
DB_count(rows, s, cls) ==
    IF cls = NoFilter
    THEN DB_count_loop(rows, s, DbClasses)
    ELSE Cardinality(DB_all(rows, s, cls))

DB_count_raises(session, tables, cls) ==
    IF cls = NoFilter
    THEN DB_all_raises(session, tables, Handle("State"))
    ELSE DB_all_raises(session, tables, cls)

\* The session state a query leaves behind: opened and flushed.
DB_after_query(session, t) ==
    [session EXCEPT !.reg[t] = DB_autoflush(DB_sess(session, t))]

\* The calls of DBStorage as they act on __session for thread t: a call
\* that reaches self.__session opens the thread's session, also when the
\* session method then raises.
DBStorage_new(session, rows, t, obj) ==
    IF ~session.set
    THEN session
    ELSE [session EXCEPT !.reg[t] = DB_new(rows, DB_sess(session, t), obj)]

DBStorage_delete(session, rows, t, obj) ==
    IF obj = NoneObj \/ ~session.set
    THEN session
    ELSE [session EXCEPT !.reg[t] = DB_delete(rows, DB_sess(session, t), obj)]

DBStorage_save_rows(session, rows, t) ==
    IF ~session.set THEN rows ELSE DB_save(rows, DB_sess(session, t))

DBStorage_save(session, t) ==
    IF ~session.set THEN session ELSE [session EXCEPT !.reg[t] = NewSess]

DBStorage_close(session, t) ==
    IF ~session.set THEN session ELSE DB_close(session, t)

DBStorage_all(session, tables, t, cls) ==
    IF DB_queried(cls) = {} \/ DB_all_raises(session, tables, cls) # "no"
    THEN session
    ELSE DB_after_query(session, t)

DBStorage_get(session, tables, t, cls) ==
    IF ~(cls.kind = "class" /\ cls.name \in DbClasses)
    THEN session
    ELSE DBStorage_all(session, tables, t, cls)

DBStorage_count(session, tables, t, cls) ==
    IF cls = NoFilter
    THEN DBStorage_all(session, tables, t, Handle("State"))
    ELSE DBStorage_all(session, tables, t, cls)

\* The value a call returns, or the exception it raises.
Outcome(raises, value) == IF raises = "no" THEN value ELSE Raised(raises)

----------------------------------------------------------------------------
(* Observer of the calls made                                             *)

\* call: the last call made; seq/stage/rec: the sequence under way, stage 1
\* after new(rec) or delete(rec) returned, 2 after save() returned, 3 after
\* reload().  A process restart between save() and reload() keeps stage 2.
Idle(call) == [call |-> call, seq |-> "none", stage |-> 0, rec |-> NoneObj]
MonStart(seq, obj, started) ==
    IF obj # NoneObj /\ started
    THEN [call |-> seq, seq |-> seq, stage |-> 1, rec |-> obj]
    ELSE Idle(seq)
MonSave(m, raises) ==
    IF m.stage = 1 /\ raises = "no"
    THEN [m EXCEPT !.call = "save", !.stage = 2]
    ELSE Idle("save")
MonRestart(m, kept) ==
    IF m.stage = 2 /\ kept THEN [m EXCEPT !.call = "restart"] ELSE Idle("restart")
\* Stage 4: reload() or close() came right after new(rec) or delete(rec),
\* with no save() between them.
MonReload(m) ==
    IF m.stage = 2 THEN [m EXCEPT !.call = "reload", !.stage = 3]
    ELSE IF m.stage = 1 THEN [m EXCEPT !.call = "reload", !.stage = 4]
    ELSE Idle("reload")
MonClose(m) ==
    IF m.stage = 1 THEN [m EXCEPT !.call = "close", !.stage = 4] ELSE Idle("close")

----------------------------------------------------------------------------
(* The caller's side: the web application and the references it keeps      *)

\* No request under way.  pc: "idle", "handler" (states_list runs) or
\* "teardown" (the application context is being popped); closes: the calls
\* of storage.close() made for the request; exc: the handler raised; page:
\* the states handed to the template.
WebIdle == [pc |-> "idle", closes |-> 0, exc |-> FALSE, page |-> <<>>]

\* No mapping kept from an all() call.
NoRef == [kind |-> "none", cls |-> NoFilter, val |-> <<>>]

----------------------------------------------------------------------------
(* The file as other programs may leave it                                 *)

\* Longest document written to the file from outside.
MaxTamper == 2

GoodEntry(r) == [key |-> KeyOf(r), val |-> to_dict(r)]
BogusEntry == [key |-> "State.2", val |-> [__class__ |-> "Bogus", id |-> "2", name |-> "a"]]
PasswordEntry == [key |-> "password", val |-> to_dict([cls |-> "State", id |-> "2", name |-> "a"])]
TamperPool ==
    { GoodEntry([cls |-> "State", id |-> "1", name |-> "a"]),
      BogusEntry, PasswordEntry }

TamperDocs ==
    {d \in UNION {[1..n -> TamperPool] : n \in 1..MaxTamper} :
        \A i, j \in 1..Len(d) : i # j => d[i].key # d[j].key}

TamperedFiles == {AbsentFile, InvalidFile} \cup {JsonFile(d) : d \in TamperDocs}

\* A document whose entries all carry a known type tag.
WellTagged(doc) == \A i \in 1..Len(doc) : doc[i].val["__class__"] \in FsClasses
Malformed(file) == file.exists /\ (~file.valid \/ ~WellTagged(file.doc))
Readable(file) == file.exists /\ file.valid /\ WellTagged(file.doc)

----------------------------------------------------------------------------
(* The facade over FileStorage: models.storage when the file backend is    *)
(* selected                                                                *)

FileAll(cls) ==
    /\ storage = "file"
    /\ ret' = RetDict(FS_all(fs_objects, cls))
    /\ mon' = Idle("all")
    /\ UNCHANGED <<storage, web, held, fsvars, dbvars>>

FileNew(obj) ==
    /\ storage = "file"
    /\ fs_objects' = FS_new(fs_objects, obj)
    /\ ret' = RetNone
    /\ mon' = MonStart("new", obj, TRUE)
    /\ UNCHANGED <<storage, web, held, fs_file, dbvars>>

FileSave ==
    /\ storage = "file"
    /\ fs_file' = FS_save(fs_objects, fs_file)
    /\ ret' = IF FS_save_raises(fs_objects) THEN Raised("KeyError") ELSE RetNone
    /\ mon' = MonSave(mon, IF FS_save_raises(fs_objects) THEN "KeyError" ELSE "no")
    /\ UNCHANGED <<storage, web, held, fs_objects, dbvars>>

FileReload ==
    /\ storage = "file"
    /\ fs_objects' = FS_reload(fs_objects, fs_file)
    /\ ret' = IF FS_reload_raises(fs_objects, fs_file) THEN Raised("Exception") ELSE RetNone
    /\ mon' = MonReload(mon)
    /\ UNCHANGED <<storage, web, held, fs_file, dbvars>>

FileDelete(obj) ==
    /\ storage = "file"
    /\ fs_objects' = FS_delete(fs_objects, obj)
    /\ ret' = RetNone
    /\ mon' = MonStart("delete", obj, DictHas(fs_objects, KeyOf(obj)))
    /\ UNCHANGED <<storage, web, held, fs_file, dbvars>>

FileClose ==
    /\ storage = "file"
    /\ fs_objects' = FS_close(fs_objects, fs_file)
    /\ ret' = IF FS_reload_raises(fs_objects, fs_file) THEN Raised("Exception") ELSE RetNone
    /\ mon' = MonClose(mon)
    /\ UNCHANGED <<storage, web, held, fs_file, dbvars>>

FileGet(cls, id) ==
    /\ storage = "file"
    /\ ret' = RetObj(FS_get(fs_objects, cls, id))
    /\ mon' = Idle("get")
    /\ UNCHANGED <<storage, web, held, fsvars, dbvars>>

FileCount(cls) ==
    /\ storage = "file"
    /\ ret' = RetInt(FS_count(fs_objects, cls))
    /\ mon' = Idle("count")
    /\ UNCHANGED <<storage, web, held, fsvars, dbvars>>

\* Another program replaces, corrupts or removes the file.
ExternalWrite(file) ==
    /\ storage = "file"
    /\ fs_file' = file
    /\ mon' = Idle("external")
    /\ UNCHANGED <<storage, web, held, fs_objects, dbvars, ret>>

\* The process ends and a new one starts: __objects is empty again, the
\* file stays.
FileRestart ==
    /\ storage = "file"
    /\ fs_objects' = <<>>
    /\ ret' = RetNone
    /\ mon' = MonRestart(mon, TRUE)
    /\ UNCHANGED <<storage, web, held, fs_file, dbvars>>

----------------------------------------------------------------------------
(* The facade over DBStorage                                               *)

\* Record ids are unique: a record handed to new() is None, a record the
\* session already holds, or one whose key no row and no session holds.
DbFreshKey(obj) ==
    /\ \A r \in db_rows : KeyOf(r) # KeyOf(obj)
    /\ \A t \in Threads : \A r \in db_session.reg[t].pending \cup db_session.reg[t].flushed :
          KeyOf(r) # KeyOf(obj)

DbNewInput(t, obj) ==
    \/ obj = NoneObj
    \/ obj \in DB_view(db_rows, DB_sess(db_session, t))
    \/ DbFreshKey(obj)

\* A record handed to delete() is None, a record the session holds or
\* sees, or one whose key no row and no session holds.
DbDeleteInput(t, obj) ==
    \/ obj = NoneObj
    \/ obj \in DB_view(db_rows, DB_sess(db_session, t))
    \/ obj \in DB_sess(db_session, t).deleted
    \/ DbFreshKey(obj)

DbAll(t, cls) ==
    /\ storage = "db"
    /\ db_session' = DBStorage_all(db_session, db_tables, t, cls)
    /\ ret' = Outcome(DB_all_raises(db_session, db_tables, cls),
                      RetDict(DB_all(db_rows, DB_sess(db_session, t), cls)))
    /\ mon' = Idle("all")
    /\ UNCHANGED <<storage, web, held, fsvars, db_tables, db_rows>>

DbNew(t, obj) ==
    /\ storage = "db"
    /\ DbNewInput(t, obj)
    /\ db_session' = DBStorage_new(db_session, db_rows, t, obj)
    /\ ret' = Outcome(DB_new_raises(db_session, obj), RetNone)
    /\ mon' = MonStart("new", obj, DB_new_raises(db_session, obj) = "no")
    /\ UNCHANGED <<storage, web, held, fsvars, db_tables, db_rows>>

DbSave(t) ==
    /\ storage = "db"
    /\ db_rows' = DBStorage_save_rows(db_session, db_rows, t)
    /\ db_session' = DBStorage_save(db_session, t)
    /\ ret' = Outcome(DB_save_raises(db_session), RetNone)
    /\ mon' = MonSave(mon, DB_save_raises(db_session))
    /\ UNCHANGED <<storage, web, held, fsvars, db_tables>>

DbDelete(t, obj) ==
    /\ storage = "db"
    /\ DbDeleteInput(t, obj)
    /\ db_session' = DBStorage_delete(db_session, db_rows, t, obj)
    /\ ret' = Outcome(DB_delete_raises(db_session, db_rows, DB_sess(db_session, t), obj),
                      RetNone)
    /\ mon' = MonStart("delete", obj,
          DB_delete_raises(db_session, db_rows, DB_sess(db_session, t), obj) = "no")
    /\ UNCHANGED <<storage, web, held, fsvars, db_tables, db_rows>>

DbReload ==
    /\ storage = "db"
    /\ db_tables' = TRUE
    /\ db_session' = DB_reload(db_session)
    /\ ret' = RetNone
    /\ mon' = MonReload(mon)
    /\ UNCHANGED <<storage, web, held, fsvars, db_rows>>

DbClose(t) ==
    /\ storage = "db"
    /\ db_session' = DBStorage_close(db_session, t)
    /\ ret' = Outcome(DB_close_raises(db_session), RetNone)
    /\ mon' = IF DB_close_raises(db_session) = "no" THEN MonClose(mon) ELSE Idle("close")
    /\ UNCHANGED <<storage, web, held, fsvars, db_tables, db_rows>>

DbGet(t, cls, id) ==
    /\ storage = "db"
    /\ db_session' = DBStorage_get(db_session, db_tables, t, cls)
    /\ ret' = Outcome(DB_get_raises(db_session, db_tables, cls),
                      RetObj(DB_get(db_rows, DB_sess(db_session, t), cls, id)))
    /\ mon' = Idle("get")
    /\ UNCHANGED <<storage, web, held, fsvars, db_tables, db_rows>>

DbCount(t, cls) ==
    /\ storage = "db"
    /\ db_session' = DBStorage_count(db_session, db_tables, t, cls)
    /\ ret' = Outcome(DB_count_raises(db_session, db_tables, cls),
                      RetInt(DB_count(db_rows, DB_sess(db_session, t), cls)))
    /\ mon' = Idle("count")
    /\ UNCHANGED <<storage, web, held, fsvars, db_tables, db_rows>>

\* A constructor that never drops the tables.
DbRestart_KeepTables(test) ==
    /\ storage = "db"
    /\ db_session' = SessionNone
    /\ ret' = RetNone
    /\ mon' = MonRestart(mon, ~test)
    /\ UNCHANGED <<storage, web, held, fsvars, db_tables, db_rows>>

\* The process ends and a new one constructs DBStorage(): __session is
\* None again; with HBNB_ENV == "test" the constructor drops the tables.
DbRestart(test) ==
    /\ storage = "db"
    /\ db_session' = SessionNone
    /\ db_tables' = IF test THEN FALSE ELSE db_tables
    /\ db_rows' = IF test THEN {} ELSE db_rows
    /\ ret' = RetNone
    /\ mon' = MonRestart(mon, ~test)
    /\ UNCHANGED <<storage, web, held, fsvars>>

----------------------------------------------------------------------------
(* One process: the facade holds one backend, chosen at start              *)

\* What an earlier run may have left durable.
EarlierRecords == {{}, {[cls |-> "State", id |-> "1", name |-> "a"]}}

DocOf(recs) ==
    IF recs = {} THEN <<>> ELSE <<GoodEntry(CHOOSE r \in recs : TRUE)>>

InitFile ==
    /\ storage = "file"
    /\ fs_objects = <<>>
    /\ fs_file \in {AbsentFile} \cup {JsonFile(DocOf(e)) : e \in EarlierRecords}
    /\ db_tables = FALSE
    /\ db_rows = {}
    /\ db_session = SessionNone

\* DBStorage(): with HBNB_ENV == "test" the tables are dropped; otherwise
\* the database is as an earlier run left it.
InitDb ==
    /\ storage = "db"
    /\ fs_objects = <<>>
    /\ fs_file = AbsentFile
    /\ db_tables \in BOOLEAN
    /\ db_rows \in (IF db_tables THEN EarlierRecords ELSE {{}})
    /\ db_session = SessionNone

Init ==
    /\ InitFile \/ InitDb
    /\ ret = RetNone
    /\ mon = Idle("init")
    /\ web = WebIdle
    /\ held = NoRef

FileNext ==
    \/ \E cls \in Filters : FileAll(cls)
    \/ \E obj \in Records \cup {NoneObj} : FileNew(obj)
    \/ FileSave
    \/ FileReload
    \/ \E obj \in Records \cup {NoneObj} : FileDelete(obj)
    \/ FileClose
    \/ \E cls \in Filters, id \in QueryIds : FileGet(cls, id)
    \/ \E cls \in Filters : FileCount(cls)
    \/ \E file \in TamperedFiles : ExternalWrite(file)
    \/ FileRestart

DbNext ==
    \/ \E cls \in Filters : DbAll(MainThread, cls)
    \/ \E obj \in Records \cup {NoneObj} : DbNew(MainThread, obj)
    \/ DbSave(MainThread)
    \/ \E obj \in Records \cup {NoneObj} : DbDelete(MainThread, obj)
    \/ DbReload
    \/ DbClose(MainThread)
    \/ \E cls \in Filters, id \in QueryIds : DbGet(MainThread, cls, id)
    \/ \E cls \in Filters : DbCount(MainThread, cls)
    \/ \E test \in BOOLEAN : DbRestart(test)

Next == FileNext \/ DbNext

Spec == Init /\ [][Next]_vars

----------------------------------------------------------------------------
(* Both backends side by side: every call is made on a FileStorage and on  *)
(* a DBStorage, in the same order with the same arguments                  *)

RetPair(f, d) == [kind |-> "pair", val |-> <<f, d>>]

\* The records handed to both stores.
PairRecords ==
    { [cls |-> "State", id |-> "1", name |-> "a"],
      [cls |-> "City", id |-> "1", name |-> "a"] }

\* Type names are passed as the literals the `classes` dictionaries use.
PairFilters == {f \in Filters : f.kind = "str" => (f.interned \/ f.name \notin DbClasses)}

PairAll(cls) ==
    /\ storage = "pair"
    /\ db_session' = DBStorage_all(db_session, db_tables, MainThread, cls)
    /\ ret' = RetPair(RetDict(FS_all(fs_objects, cls)),
                      Outcome(DB_all_raises(db_session, db_tables, cls),
                              RetDict(DB_all(db_rows, DB_sess(db_session, MainThread), cls))))
    /\ mon' = Idle("all")
    /\ UNCHANGED <<storage, web, held, fsvars, db_tables, db_rows>>

PairNew(obj) ==
    /\ storage = "pair"
    /\ DbNewInput(MainThread, obj)
    /\ fs_objects' = FS_new(fs_objects, obj)
    /\ db_session' = DBStorage_new(db_session, db_rows, MainThread, obj)
    /\ ret' = RetPair(RetNone, Outcome(DB_new_raises(db_session, obj), RetNone))
    /\ mon' = Idle("new")
    /\ UNCHANGED <<storage, web, held, fs_file, db_tables, db_rows>>

PairSave ==
    /\ storage = "pair"
    /\ fs_file' = FS_save(fs_objects, fs_file)
    /\ db_rows' = DBStorage_save_rows(db_session, db_rows, MainThread)
    /\ db_session' = DBStorage_save(db_session, MainThread)
    /\ ret' = RetPair(IF FS_save_raises(fs_objects) THEN Raised("KeyError") ELSE RetNone,
                      Outcome(DB_save_raises(db_session), RetNone))
    /\ mon' = Idle("save")
    /\ UNCHANGED <<storage, web, held, fs_objects, db_tables>>

PairDelete(obj) ==
    /\ storage = "pair"
    /\ DbDeleteInput(MainThread, obj)
    /\ fs_objects' = FS_delete(fs_objects, obj)
    /\ db_session' = DBStorage_delete(db_session, db_rows, MainThread, obj)
    /\ ret' = RetPair(RetNone,
                      Outcome(DB_delete_raises(db_session, db_rows,
                                               DB_sess(db_session, MainThread), obj),
                              RetNone))
    /\ mon' = Idle("delete")
    /\ UNCHANGED <<storage, web, held, fs_file, db_tables, db_rows>>

PairClose ==
    /\ storage = "pair"
    /\ fs_objects' = FS_close(fs_objects, fs_file)
    /\ db_session' = DBStorage_close(db_session, MainThread)
    /\ ret' = RetPair(RetNone, Outcome(DB_close_raises(db_session), RetNone))
    /\ mon' = Idle("close")
    /\ UNCHANGED <<storage, web, held, fs_file, db_tables, db_rows>>

PairGet(cls, id) ==
    /\ storage = "pair"
    /\ db_session' = DBStorage_get(db_session, db_tables, MainThread, cls)
    /\ ret' = RetPair(RetObj(FS_get(fs_objects, cls, id)),
                      Outcome(DB_get_raises(db_session, db_tables, cls),
                              RetObj(DB_get(db_rows, DB_sess(db_session, MainThread), cls, id))))
    /\ mon' = Idle("get")
    /\ UNCHANGED <<storage, web, held, fsvars, db_tables, db_rows>>

PairCount(cls) ==
    /\ storage = "pair"
    /\ db_session' = DBStorage_count(db_session, db_tables, MainThread, cls)
    /\ ret' = RetPair(RetInt(FS_count(fs_objects, cls)),
                      Outcome(DB_count_raises(db_session, db_tables, cls),
                              RetInt(DB_count(db_rows, DB_sess(db_session, MainThread), cls))))
    /\ mon' = Idle("count")
    /\ UNCHANGED <<storage, web, held, fsvars, db_tables, db_rows>>

\* Both stores start from the same durable contents and have been reloaded
\* once.
PairInit ==
    /\ storage = "pair"
    /\ \E e \in EarlierRecords :
          /\ fs_file = (IF e = {} THEN AbsentFile ELSE JsonFile(DocOf(e)))
          /\ db_rows = e
    /\ fs_objects = FS_reload(<<>>, fs_file)
    /\ db_tables = TRUE
    /\ db_session = DB_reload(SessionNone)
    /\ ret = RetNone
    /\ mon = Idle("init")
    /\ web = WebIdle
    /\ held = NoRef

PairNext ==
    \/ \E cls \in PairFilters : PairAll(cls)
    \/ \E obj \in PairRecords \cup {NoneObj} : PairNew(obj)
    \/ PairSave
    \/ \E obj \in PairRecords \cup {NoneObj} : PairDelete(obj)
    \/ PairClose
    \/ \E cls \in PairFilters, id \in QueryIds : PairGet(cls, id)
    \/ \E cls \in PairFilters : PairCount(cls)

SpecPair == PairInit /\ [][PairNext]_vars

----------------------------------------------------------------------------
(* What the application sees through the facade, on the main thread        *)

StorageGet(cls, id) ==
    IF storage = "file"
    THEN FS_get(fs_objects, cls, id)
    ELSE DB_get(db_rows, DB_sess(db_session, MainThread), cls, id)

\* The records of all(cls), without their keys and their order.
StorageAllObjs(cls) ==
    IF storage = "file"
    THEN DictValues(FS_all(fs_objects, cls))
    ELSE {e.obj : e \in DB_all(db_rows, DB_sess(db_session, MainThread), cls)}

StorageCount(cls) ==
    IF storage = "file"
    THEN FS_count(fs_objects, cls)
    ELSE DB_count(db_rows, DB_sess(db_session, MainThread), cls)

\* The records the store holds: the mapping's values, or the session's view.
Stored ==
    IF storage = "file"
    THEN DictValues(fs_objects)
    ELSE DB_view(db_rows, DB_sess(db_session, MainThread))

StorageAllSize(cls) ==
    IF storage = "file"
    THEN Len(FS_all(fs_objects, cls))
    ELSE Cardinality(DB_all(db_rows, DB_sess(db_session, MainThread), cls))

\* The keys of the backend's `classes` dictionary.
StorageClasses == IF storage = "file" THEN FsClasses ELSE DbClasses

\* The backend can answer queries: always for the file backend, once
\* reload() has set __session for the database backend.
Ready == storage = "file" \/ db_session.set

----------------------------------------------------------------------------
(* Properties                                                              *)

\* C1: round-trip law.  After new(R), save() and reload() have returned in
\* that order (with or without a process restart between save and reload),
\* get(type(R), R.id) returns a record equal to R in every attribute, for
\* the file backend and for the database backend.
C1_RoundTrip ==
    (mon.seq = "new" /\ mon.stage = 3)
        => StorageGet(Handle(mon.rec.cls), mon.rec.id) = mon.rec

\* C1 witness: the file backend after new(State.1 renamed "b"), save(), a
\* restart and reload(): the record in the mapping was rebuilt from the file.
C1_Witness ==
    /\ storage = "file"
    /\ mon.seq = "new" /\ mon.stage = 3
    /\ mon.rec.name = "b"
    /\ DictHas(fs_objects, KeyOf(mon.rec))
    /\ Len(fs_objects) >= 2

C3_ReloadReplaces ==
    (storage = "file" /\ mon.call \in {"reload", "close"} /\ Readable(fs_file))
        => DictKeys(fs_objects) = DocKeys(fs_file.doc)

\* C3 (amended): a reload() or close() of the file backend that reads the
\* file successfully binds every key of the file to the record rebuilt from
\* the file's entry and keeps every other entry as it was: the key set of
\* the mapping becomes the union of its former key set and the file's.
C3_ReloadMerges ==
    [][ ((FileReload \/ FileClose) /\ Readable(fs_file)) =>
          /\ \A k \in DocKeys(fs_file.doc) :
                /\ DictHas(fs_objects', k)
                /\ DictGet(fs_objects', k) = from_dict(DocGet(fs_file.doc, k))
          /\ \A k \in DictKeys(fs_objects) \ DocKeys(fs_file.doc) :
                /\ DictHas(fs_objects', k)
                /\ DictGet(fs_objects', k) = DictGet(fs_objects, k)
          /\ DictKeys(fs_objects') = DictKeys(fs_objects) \cup DocKeys(fs_file.doc)
      ]_vars

\* C3 witness: right after a reload() that read a non-empty file, the
\* mapping still holds an entry that is not in the file.
C3_Witness ==
    /\ storage = "file"
    /\ mon.call = "reload"
    /\ Readable(fs_file) /\ fs_file.doc # <<>>
    /\ DocKeys(fs_file.doc) \subseteq DictKeys(fs_objects)
    /\ DictKeys(fs_objects) \ DocKeys(fs_file.doc) # {}

\* C5 (as claimed): reload() of the file backend on a malformed file (not a
\* JSON document, or an entry tagged with an unknown type) raises nothing
\* and leaves the mapping exactly as it was.
C5_MalformedNoop ==
    [][ (FileReload /\ Malformed(fs_file)) =>
          (fs_objects' = fs_objects /\ ret'.kind # "raise") ]_vars

\* C6: reload() of the file backend when the file does not exist raises
\* nothing and leaves the mapping unchanged, whatever the mapping holds.
C6_AbsentNoop ==
    [][ (FileReload /\ ~fs_file.exists) =>
          (fs_objects' = fs_objects /\ ret'.kind # "raise") ]_vars

\* C6 witness: right after a reload() without a file, the mapping still
\* holds the entries made by new().
C6_Witness ==
    /\ storage = "file"
    /\ mon.call = "reload"
    /\ ~fs_file.exists
    /\ Len(fs_objects) >= 2
    /\ ret = RetNone

\* Two answers are the same: both raise, or both return None, the same
\* record, the same count, or mappings with the same key set.
SameAnswer(f, d) ==
    /\ f.kind = d.kind
    /\ f.kind = "dict" => DictKeys(f.val) = {e.key : e \in d.val}
    /\ f.kind \in {"obj", "int"} => f.val = d.val

\* C4 (as claimed): the two backends behave identically: after the same
\* calls in the same order from the same durable contents, every all, get
\* and count call returns the same key set, record or count on both.
C4_BackendsAgree ==
    (storage = "pair" /\ mon.call \in {"all", "get", "count"})
        => SameAnswer(ret.val[1], ret.val[2])

\* C7: in every state in which the store answers, all(cls) with a type
\* handle or a type name returns only records of that type, and all() with
\* no filter returns every record of the store, in both backends.
C7_AllFiltersByType ==
    (storage \in {"file", "db"} /\ Ready) =>
        /\ \A cls \in Handles \cup StrNames :
              \A o \in StorageAllObjs(cls) : o.cls = cls.name
        /\ StorageAllObjs(NoFilter) = Stored
        /\ storage = "file" => FS_all(fs_objects, NoFilter) = fs_objects

\* C7 witness: the database backend holds records of two types and all()
\* with a type filter has just returned the State records only.
C7_Witness ==
    /\ storage = "db"
    /\ mon.call = "all"
    /\ ret.kind = "dict"
    /\ ret.val # {}
    /\ \A e \in ret.val : e.obj.cls = "State"
    /\ \E o \in Stored : o.cls = "City"

\* The records of all(cls) with the given id.
ScanHits(cls, id) == {o \in StorageAllObjs(cls) : o.id = id}

\* C8 (as claimed): for every filter all() accepts, type handle or type
\* name, and every id: get returns a record of all(cls) with that id when
\* there is one, and None only when there is none.
C8_GetScansAll ==
    (storage \in {"file", "db"} /\ Ready) =>
        \A cls \in Handles \cup StrNames, id \in QueryIds :
            IF ScanHits(cls, id) # {}
            THEN StorageGet(cls, id) \in ScanHits(cls, id)
            ELSE StorageGet(cls, id) = NoneObj

\* C8 (amended): for every class object that is a value of the backend's
\* `classes` and every id, get returns a record of all(cls) with that id
\* when there is one and None when there is none; for any other argument,
\* a type name included, get returns None whatever all(cls) holds.
C8_GetScansKnownClasses ==
    (storage \in {"file", "db"} /\ Ready) =>
        \A cls \in Filters, id \in QueryIds :
            IF cls.kind = "class" /\ cls.name \in StorageClasses
            THEN IF ScanHits(cls, id) # {}
                 THEN StorageGet(cls, id) \in ScanHits(cls, id)
                 ELSE StorageGet(cls, id) = NoneObj
            ELSE StorageGet(cls, id) = NoneObj

\* C8 witness: get with a class object has just returned a State record,
\* which all("State") holds and get("State", id) does not find.
C8_Witness ==
    /\ storage = "file"
    /\ mon.call = "get"
    /\ ret.kind = "obj"
    /\ ret.val \in StorageAllObjs(StrName("State", TRUE))
    /\ StorageGet(StrName("State", TRUE), ret.val.id) = NoneObj
    /\ StorageGet(Handle("State"), ret.val.id) = ret.val

\* No stored record of the type named by cls has the id.
NoSuchRecord(cls, id) == \A o \in Stored : ~(o.cls = cls.name /\ o.id = id)

\* What get raises, through the facade.
StorageGetRaises(cls) ==
    IF storage = "file" THEN "no" ELSE DB_get_raises(db_session, db_tables, cls)

RECURSIVE SumCounts(_)
SumCounts(todo) ==
    IF todo = {}
    THEN 0
    ELSE LET clas == CHOOSE c \in todo : TRUE
         IN  StorageCount(Handle(clas)) + SumCounts(todo \ {clas})

\* C10: in every state in which the store answers, count() with no filter
\* equals the sum of count(t) over the known record types and equals the
\* number of entries of all().
C10_CountSums ==
    (storage \in {"file", "db"} /\ Ready) =>
        /\ StorageCount(NoFilter) = SumCounts(StorageClasses)
        /\ StorageCount(NoFilter) = StorageAllSize(NoFilter)

\* C10 witness: the file backend holds records of two types and count()
\* has just returned their number.
C10_Witness ==
    /\ storage = "file"
    /\ mon.call = "count"
    /\ ret = RetInt(Len(fs_objects))
    /\ Len(fs_objects) >= 3
    /\ \E i, j \in 1..Len(fs_objects) : fs_objects[i].obj.cls # fs_objects[j].obj.cls

\* C11: in the file backend new() and delete() leave the file as it is, and
\* the file changes only in save() (or when another program writes it); so
\* after delete(R) and then reload() or close() with no save() between
\* them, a record the readable file holds under R's key is in the mapping
\* again, as the file has it.
C11_StagedOnly ==
    /\ [][ (storage = "file" /\ mon'.call \in {"new", "delete"})
              => fs_file' = fs_file ]_vars
    /\ [][ (storage = "file" /\ fs_file' # fs_file)
              => (FileSave \/ \E file \in TamperedFiles : ExternalWrite(file)) ]_vars
    /\ [] ( ( /\ storage = "file"
              /\ mon.seq = "delete" /\ mon.stage = 4
              /\ Readable(fs_file)
              /\ KeyOf(mon.rec) \in DocKeys(fs_file.doc) )
            => /\ DictHas(fs_objects, KeyOf(mon.rec))
               /\ DictGet(fs_objects, KeyOf(mon.rec))
                    = from_dict(DocGet(fs_file.doc, KeyOf(mon.rec))) )

\* C11 witness: delete(R) removed a saved record and the close() that
\* followed brought it back from the file.
C11_Witness ==
    /\ storage = "file"
    /\ mon.seq = "delete" /\ mon.stage = 4 /\ mon.call = "close"
    /\ Readable(fs_file)
    /\ KeyOf(mon.rec) \in DocKeys(fs_file.doc)
    /\ DictHas(fs_objects, KeyOf(mon.rec))

\* C12: a save() of the file backend that returns leaves in the file a JSON
\* document with exactly one entry per key of the mapping, each the
\* to_dict of the record under that key, and no entry the file held before
\* under another key; the mapping itself is unchanged.
C12_SaveReplaces ==
    [][ (FileSave /\ ~FS_save_raises(fs_objects)) =>
          /\ fs_file'.exists /\ fs_file'.valid
          /\ Len(fs_file'.doc) = Len(fs_objects)
          /\ DocKeys(fs_file'.doc) = DictKeys(fs_objects)
          /\ \A k \in DictKeys(fs_objects) :
                DocGet(fs_file'.doc, k) = to_dict(DictGet(fs_objects, k))
          /\ fs_objects' = fs_objects
      ]_vars

\* C12 witness: save() has just returned and the file holds the two
\* records of the mapping, of different types.
C12_Witness ==
    /\ storage = "file"
    /\ mon.call = "save"
    /\ ret = RetNone
    /\ Len(fs_objects) = 2
    /\ DocKeys(fs_file.doc) = DictKeys(fs_objects)
    /\ fs_objects[1].obj.cls # fs_objects[2].obj.cls

\* C13: in the database backend, once reload() has made the session, new()
\* commits nothing; a close() ends the unit of work without committing, so
\* the next unit of work sees the committed rows only and a record that was
\* registered with new() and not saved is in neither; a save() that returns
\* makes everything the unit of work staged durable and visible.
C13_StagedUntilSave ==
    /\ [][ (storage = "db" /\ mon'.call = "new") => db_rows' = db_rows ]_vars
    /\ [][ (DbClose(MainThread) /\ db_session.set) =>
              /\ db_rows' = db_rows
              /\ Stored' = db_rows
              /\ StorageAllObjs(NoFilter)' = db_rows ]_vars
    /\ [][ (DbSave(MainThread) /\ db_session.set) =>
              /\ db_rows' = Stored
              /\ Stored' = Stored ]_vars
    /\ [] ( (storage = "db" /\ mon.seq = "new" /\ mon.stage = 4 /\ mon.call = "close")
              => (mon.rec \in Stored <=> mon.rec \in db_rows) )

\* C13 witness: new(R) and then close() with no save(): R is not among the
\* rows and not in all(), while an earlier saved record is.
C13_Witness ==
    /\ storage = "db"
    /\ mon.seq = "new" /\ mon.stage = 4 /\ mon.call = "close"
    /\ mon.rec \notin db_rows
    /\ mon.rec \notin StorageAllObjs(NoFilter)
    /\ db_rows # {}

----------------------------------------------------------------------------
(* The web application of web_flask/7-states_list.py: one request at a     *)
(* time, each dispatched to states_list and ended by the teardown of its   *)
(* application context                                                     *)

\* Python's order of the sampled names: "a" < "b".
NameRank(n) == CASE n = "a" -> 1 [] n = "b" -> 2 [] OTHER -> 0

\* All the orders in which the values of a dict can come.
Orders(S) ==
    {f \in [1..Cardinality(S) -> S] : \A i, j \in 1..Cardinality(S) : i # j => f[i] # f[j]}

\* A sort that hands the list back as it came.
sorted_Unsorted(list) == list

\* sorted(list, key=lambda x: x.name): a stable sort, each element placed
\* behind the elements whose name is not greater.
RECURSIVE sorted(_)
sorted(list) ==
    IF list = <<>>
    THEN <<>>
    ELSE LET n == Len(list)
             x == list[n]
             acc == sorted(SubSeq(list, 1, n - 1))
             p == Cardinality({i \in 1..Len(acc) : NameRank(acc[i].name) <= NameRank(x.name)})
         IN  SubSeq(acc, 1, p) \o <<x>> \o SubSeq(acc, p + 1, Len(acc))

\* A teardown that closes the storage only after a request that succeeded.
teardown_db_OnSuccess(exception) == IF exception THEN <<>> ELSE <<"close">>

\* The storage calls teardown_db makes, whatever exception it is handed.
teardown_db(exception) == <<"close">>

\* The literal "State" of the handler: `interned` tells whether the build
\* made it the same object as the key of `classes`.
StateFilter(interned) == StrName("State", interned)

\* A request arrives and Flask dispatches it to states_list.
WebRequest ==
    /\ storage \in {"file", "db"}
    /\ web.pc = "idle"
    /\ web' = [pc |-> "handler", closes |-> 0, exc |-> FALSE, page |-> <<>>]
    /\ UNCHANGED <<storage, fsvars, dbvars, ret, mon, held>>

\* states_list on the file backend: all("State"), sorted, rendered.
\* render_template may raise (failed).
FileStatesList(interned, failed) ==
    /\ storage = "file"
    /\ web.pc = "handler"
    /\ LET all_state == FS_all(fs_objects, StateFilter(interned))
           states == sorted([i \in 1..Len(all_state) |-> all_state[i].obj])
       IN  /\ ret' = RetDict(all_state)
           /\ web' = [web EXCEPT !.pc = "teardown", !.exc = failed,
                                 !.page = IF failed THEN <<>> ELSE states]
    /\ mon' = Idle("all")
    /\ UNCHANGED <<storage, fsvars, dbvars, held>>

\* states_list on the database backend: the query may raise, and its rows
\* come in an order the database chooses.
DbStatesList(interned, failed) ==
    /\ storage = "db"
    /\ web.pc = "handler"
    /\ LET raises == DB_all_raises(db_session, db_tables, StateFilter(interned))
           all_state == DB_all(db_rows, DB_sess(db_session, MainThread), StateFilter(interned))
       IN  /\ db_session' = DBStorage_all(db_session, db_tables, MainThread, StateFilter(interned))
           /\ ret' = Outcome(raises, RetDict(all_state))
           /\ \E order \in Orders({e.obj : e \in all_state}) :
                 web' = [web EXCEPT !.pc = "teardown",
                                    !.exc = (failed \/ raises # "no"),
                                    !.page = IF failed \/ raises # "no"
                                             THEN <<>> ELSE sorted(order)]
    /\ mon' = Idle("all")
    /\ UNCHANGED <<storage, fsvars, db_tables, db_rows, held>>

\* Flask pops the application context when the request ends, with or
\* without an exception, and calls teardown_db, which closes the storage.
WebTeardown ==
    /\ storage \in {"file", "db"}
    /\ web.pc = "teardown"
    /\ LET calls == teardown_db(web.exc)
       IN  /\ web' = [web EXCEPT !.pc = "idle", !.closes = web.closes + Len(calls)]
           /\ IF calls = <<>>
              THEN UNCHANGED <<fs_objects, db_session, ret, mon>>
              ELSE /\ fs_objects' = (IF storage = "file"
                                     THEN FS_close(fs_objects, fs_file) ELSE fs_objects)
                   /\ db_session' = (IF storage = "db"
                                     THEN DBStorage_close(db_session, MainThread)
                                     ELSE db_session)
                   /\ ret' = (IF storage = "db"
                              THEN Outcome(DB_close_raises(db_session), RetNone)
                              ELSE RetNone)
                   /\ mon' = Idle("close")
    /\ UNCHANGED <<storage, fs_file, db_tables, db_rows, held>>

\* What earlier runs left in the store: up to three records with distinct
\* keys, in any order.
WebDocs ==
    {d \in UNION {[1..n -> Records] : n \in 0..3} :
        \A i, j \in 1..Len(d) : i # j => KeyOf(d[i]) # KeyOf(d[j])}

\* The process has started: the storage is constructed and reloaded once.
WebInit ==
    /\ storage \in {"file", "db"}
    /\ \E d \in WebDocs :
          /\ fs_file = (IF storage = "file"
                        THEN JsonFile([i \in 1..Len(d) |-> GoodEntry(d[i])])
                        ELSE AbsentFile)
          /\ db_rows = (IF storage = "db" THEN {d[i] : i \in 1..Len(d)} ELSE {})
    /\ fs_objects = FS_reload(<<>>, fs_file)
    /\ db_tables = (storage = "db")
    /\ db_session = (IF storage = "db" THEN DB_reload(SessionNone) ELSE SessionNone)
    /\ ret = RetNone
    /\ mon = Idle("init")
    /\ web = WebIdle
    /\ held = NoRef

WebNext ==
    \/ WebRequest
    \/ \E interned \in BOOLEAN, failed \in BOOLEAN : FileStatesList(interned, failed)
    \/ \E interned \in BOOLEAN, failed \in BOOLEAN : DbStatesList(interned, failed)
    \/ WebTeardown

SpecWeb == WebInit /\ [][WebNext]_vars

\* A request that was dispatched runs its handler, and a context that was
\* pushed is popped.
SpecWebLive ==
    /\ SpecWeb
    /\ WF_vars(\E interned \in BOOLEAN, failed \in BOOLEAN :
                  FileStatesList(interned, failed) \/ DbStatesList(interned, failed))
    /\ WF_vars(WebTeardown)

\* C14: the web application calls storage.close() for every request, once,
\* after the handler, whether states_list returned or raised: no close()
\* is made while the request is handled, the request ends by the one
\* close(), and every dispatched request gets there.
C14_CloseOncePerRequest ==
    /\ [] (web.pc \in {"handler", "teardown"} => web.closes = 0)
    /\ [][ (web.pc # "idle" /\ web'.pc = "idle")
              => (web.pc = "teardown" /\ web'.closes = 1 /\ mon'.call = "close") ]_vars
    /\ [] (web.pc = "handler" => <>(web.pc = "idle" /\ web.closes = 1))

\* C14 witness: a request whose handler raised has ended, and close() was
\* called once for it.
C14_Witness ==
    /\ web.pc = "idle"
    /\ web.exc
    /\ web.closes = 1
    /\ mon.call = "close"

\* The records of the mapping the handler got from all("State").
ReturnedStates ==
    IF storage = "file" THEN DictValues(ret.val) ELSE {e.obj : e \in ret.val}

\* C16: when states_list has rendered, the page lists exactly the records
\* that its call of all("State") returned, each once, in ascending order of
\* name.
C16_StatesSorted ==
    (web.pc = "teardown" /\ ~web.exc) =>
        /\ ret.kind = "dict"
        /\ {web.page[i] : i \in 1..Len(web.page)} = ReturnedStates
        /\ Len(web.page) = Cardinality(ReturnedStates)
        /\ \A i, j \in 1..Len(web.page) :
              i < j => NameRank(web.page[i].name) <= NameRank(web.page[j].name)
        /\ \A i \in 1..Len(web.page) : web.page[i].cls = "State"

\* C16 witness: the file backend holds State.1 named "b" ahead of State.2
\* named "a", and the page lists State.2 first.
C16_Witness ==
    /\ storage = "file"
    /\ web.pc = "teardown" /\ ~web.exc
    /\ Len(web.page) = 2
    /\ web.page[1].name = "a" /\ web.page[2].name = "b"
    /\ fs_objects[1].obj.name = "b"

\* The call reaches the database: all and count with no filter, a class of
\* `classes` or its interned name; get with a class of `classes`.
QueriesDatabase(call, cls) ==
    IF call = "get"
    THEN cls.kind = "class" /\ cls.name \in DbClasses
    ELSE DB_queried(cls) # {}

\* What the call raises in the current state.
CallRaises(call, cls) ==
    CASE call = "all" -> DB_all_raises(db_session, db_tables, cls)
      [] call = "get" -> DB_get_raises(db_session, db_tables, cls)
      [] call = "count" -> DB_count_raises(db_session, db_tables, cls)

\* C15 (as claimed): between the construction of a database backend in test
\* mode and its first reload(), no all, get or count call succeeds,
\* whatever its type argument.
C15_NoCallBeforeReload ==
    (storage = "db" /\ ~db_tables /\ ~db_session.set) =>
        \A call \in {"all", "get", "count"}, cls \in Filters :
            CallRaises(call, cls) # "no"

\* C15 (amended): constructing the database backend in test mode drops the
\* tables with their rows; until the first reload() every all, get and count
\* call that reaches the database raises, while a call whose type argument
\* selects no class of `classes` returns without reaching it; once reload()
\* has run the tables exist and no call raises.
C15_QueriesNeedReload ==
    /\ [][ DbRestart(TRUE) => (~db_tables' /\ db_rows' = {} /\ ~db_session'.set) ]_vars
    /\ [] ( (storage = "db" /\ ~db_session.set) =>
              \A call \in {"all", "get", "count"}, cls \in Filters :
                  (CallRaises(call, cls) # "no") <=> QueriesDatabase(call, cls) )
    /\ [] ( (storage = "db" /\ ~db_tables) => (~db_session.set /\ db_rows = {}) )
    /\ [] ( (storage = "db" /\ db_session.set) =>
              /\ db_tables
              /\ \A call \in {"all", "get", "count"}, cls \in Filters :
                    CallRaises(call, cls) = "no" )

\* C15 witness: a backend was constructed over dropped tables and get on a
\* class of `classes` has just raised.
C15_Witness ==
    /\ storage = "db"
    /\ ~db_tables /\ ~db_session.set
    /\ mon.call = "get"
    /\ ret.kind = "raise"

----------------------------------------------------------------------------
(* The file backend alone with its file: no other program writes file.json *)

OwnFileInit ==
    /\ InitFile
    /\ ret = RetNone
    /\ mon = Idle("init")
    /\ web = WebIdle
    /\ held = NoRef

OwnFileNext ==
    \/ \E cls \in Filters : FileAll(cls)
    \/ \E obj \in Records \cup {NoneObj} : FileNew(obj)
    \/ FileSave
    \/ FileReload
    \/ \E obj \in Records \cup {NoneObj} : FileDelete(obj)
    \/ FileClose
    \/ \E cls \in Filters, id \in QueryIds : FileGet(cls, id)
    \/ \E cls \in Filters : FileCount(cls)
    \/ FileRestart

SpecOwnFile == OwnFileInit /\ [][OwnFileNext]_vars

\* C17: with the file written by save() only, in every state the file
\* backend reaches by new, delete, save, reload, close and restarts, every
\* key of the mapping is "<ClassName>.<id>" of the record it maps to, and no
\* two entries hold records with the same class name and id.
C17_KeysNameRecords ==
    storage = "file" =>
        /\ \A i \in 1..Len(fs_objects) : fs_objects[i].key = KeyOf(fs_objects[i].obj)
        /\ \A i, j \in 1..Len(fs_objects) :
              i # j => ~( /\ fs_objects[i].obj.cls = fs_objects[j].obj.cls
                          /\ fs_objects[i].obj.id = fs_objects[j].obj.id )

\* C17 witness: the mapping holds two records with the same id and
\* different types, both also in the file, and a third one that new() has
\* just added.
C17_Witness ==
    /\ storage = "file"
    /\ mon.call = "new"
    /\ Len(fs_objects) = 3
    /\ DictHas(fs_objects, "State.1") /\ DictHas(fs_objects, "City.1")
    /\ DocKeys(fs_file.doc) = {"State.1", "City.1"}
    /\ fs_objects[3].key = "State.2"

----------------------------------------------------------------------------
(* A caller of the file backend that keeps the mapping all() returned      *)

\* An all() that always builds a new dict.
FS_all_returns_Copy(objects, cls) ==
    [kind |-> "copy", cls |-> cls, val |-> FS_all(objects, cls)]

\* What all(cls) hands back: new_dict, a dict of its own, when a filter is
\* given, and self.__objects itself when none is.
FS_all_returns(objects, cls) ==
    IF cls # NoFilter
    THEN [kind |-> "copy", cls |-> cls, val |-> FS_all(objects, cls)]
    ELSE [kind |-> "live", cls |-> cls, val |-> <<>>]

\* The mapping seen through a kept reference.
Deref(ref, objects) == IF ref.kind = "live" THEN objects ELSE ref.val

\* d = storage.all(cls)
HeldAll(cls) ==
    /\ storage = "file"
    /\ held' = FS_all_returns(fs_objects, cls)
    /\ ret' = RetDict(FS_all(fs_objects, cls))
    /\ mon' = Idle("all")
    /\ UNCHANGED <<storage, web, fsvars, dbvars>>

HeldInit ==
    /\ InitFile
    /\ ret = RetNone
    /\ mon = Idle("init")
    /\ web = WebIdle
    /\ held = NoRef

HeldNext ==
    \/ \E cls \in Filters : HeldAll(cls)
    \/ \E obj \in Records \cup {NoneObj} : FileNew(obj)
    \/ \E obj \in Records \cup {NoneObj} : FileDelete(obj)

SpecHeld == HeldInit /\ [][HeldNext]_vars

\* C18: in the file backend a mapping obtained from all(type) with a filter
\* shows the same entries after any later new() or delete(), and a mapping
\* obtained from all() with no filter shows the store's mapping as the
\* new() or delete() left it.
C18_SnapshotOrLive ==
    [][ (mon'.call \in {"new", "delete"} /\ held.kind # "none") =>
          /\ held.cls # NoFilter =>
                Deref(held', fs_objects') = Deref(held, fs_objects)
          /\ held.cls = NoFilter =>
                Deref(held', fs_objects') = fs_objects'
      ]_vars

\* C18 witness: the caller holds the mapping of all("State") taken before a
\* delete(); the record deleted since is still in it and no longer in the
\* store.
C18_Witness ==
    /\ storage = "file"
    /\ held.kind = "copy" /\ held.cls = StrName("State", FALSE)
    /\ mon.call = "delete" /\ mon.stage = 1
    /\ DictHas(held.val, KeyOf(mon.rec))
    /\ ~DictHas(fs_objects, KeyOf(mon.rec))

\* The mappings agree on every key but k.
SameButFor(d, e, k) ==
    /\ DictKeys(d) \ {k} = DictKeys(e) \ {k}
    /\ \A j \in DictKeys(d) \ {k} : DictGet(d, j) = DictGet(e, j)

\* C19: in the file backend new(R) binds R's key to R and leaves every
\* other entry as it was; new(None), delete(None) and delete(R) for a key
\* the mapping does not hold leave the mapping as it was; delete(R) for a
\* key it holds removes that entry and leaves every other entry as it was.
C19_NewDeleteFrame ==
    [][ \A obj \in Records \cup {NoneObj} :
          /\ FileNew(obj) =>
                IF obj = NoneObj
                THEN fs_objects' = fs_objects
                ELSE /\ DictHas(fs_objects', KeyOf(obj))
                     /\ DictGet(fs_objects', KeyOf(obj)) = obj
                     /\ SameButFor(fs_objects, fs_objects', KeyOf(obj))
          /\ FileDelete(obj) =>
                IF obj = NoneObj \/ ~DictHas(fs_objects, KeyOf(obj))
                THEN fs_objects' = fs_objects
                ELSE /\ ~DictHas(fs_objects', KeyOf(obj))
                     /\ SameButFor(fs_objects, fs_objects', KeyOf(obj))
      ]_vars

\* C19 witness: delete(R) has just removed one of three entries, and
\* another record of R's type is still there.
C19_Witness ==
    /\ storage = "file"
    /\ mon.call = "delete" /\ mon.stage = 1
    /\ Len(fs_objects) = 2
    /\ ~DictHas(fs_objects, KeyOf(mon.rec))
    /\ \E i \in 1..Len(fs_objects) : fs_objects[i].obj.cls = mon.rec.cls

----------------------------------------------------------------------------
(* The database backend called from two threads, after the one reload()    *)
(* of the process start                                                    *)

\* The records the two threads work with.
ThreadRecords ==
    { [cls |-> "State", id |-> "1", name |-> "a"],
      [cls |-> "State", id |-> "2", name |-> "a"],
      [cls |-> "City", id |-> "1", name |-> "a"] }

ThreadsInit ==
    /\ storage = "db"
    /\ fs_objects = <<>>
    /\ fs_file = AbsentFile
    /\ db_tables = TRUE
    /\ db_rows \in EarlierRecords
    /\ db_session = DB_reload(SessionNone)
    /\ ret = RetNone
    /\ mon = Idle("init")
    /\ web = WebIdle
    /\ held = NoRef

ThreadsNext ==
    \E t \in Threads :
        \/ DbAll(t, NoFilter)
        \/ \E obj \in ThreadRecords : DbNew(t, obj)
        \/ DbSave(t)
        \/ \E obj \in ThreadRecords : DbDelete(t, obj)
        \/ DbClose(t)

SpecThreads == ThreadsInit /\ [][ThreadsNext]_vars

\* What thread t has staged: the records it added and the ones it marked
\* for deletion.
Staged(session, t) ==
    [added |-> session.reg[t].pending \cup session.reg[t].flushed,
     deleted |-> session.reg[t].deleted]

\* C20: after the one reload() of the process start, threads do not share
\* a session: a call by one thread leaves the other thread's session as it
\* was; save() by one thread commits that thread's staged records only, so
\* nothing the other thread added appears in the rows and nothing it marked
\* for deletion leaves them; close() by one thread drops that thread's
\* session only.
C20_SessionsPerThread ==
    [][ \A t \in Threads : \A u \in Threads \ {t} :
          /\ (DbSave(t) \/ DbClose(t)) =>
                /\ db_session'.reg[u] = db_session.reg[u]
                /\ Staged(db_session', u) = Staged(db_session, u)
          /\ DbSave(t) =>
                /\ db_rows' = DB_view(db_rows, DB_sess(db_session, t))
                /\ \A r \in Staged(db_session, u).added \ Staged(db_session, t).added :
                      r \notin db_rows => r \notin db_rows'
                /\ \A r \in Staged(db_session, u).deleted \ Staged(db_session, t).deleted :
                      r \in db_rows => r \in db_rows'
          /\ DbClose(t) =>
                /\ db_rows' = db_rows
                /\ ~db_session'.reg[t].open
      ]_vars

\* C20 witness: one thread has just closed its session while the other
\* still holds a record it added and a deletion it marked, none of them
\* committed.
C20_Witness ==
    /\ storage = "db"
    /\ mon.call = "close"
    /\ \E t \in Threads : \E u \in Threads \ {t} :
          /\ ~db_session.reg[t].open
          /\ db_session.reg[u].open
          /\ Staged(db_session, u).added # {}
          /\ Staged(db_session, u).added \cap db_rows = {}
          /\ Staged(db_session, u).deleted # {}
          /\ Staged(db_session, u).deleted \subseteq db_rows

====
